---- MODULE Spec2Model ----
(***************************************************************************)
(* Korad KA3xxxP bench supply control: the driver (korad3005p/korad3005p.py)*)
(* and the tools built on it: the LiPo charger (korad_charge.py), the CSV   *)
(* logger (korad_log.py) and the command-line control tool                  *)
(* (korad_control.py).                                                       *)
(*                                                                           *)
(* Units.  Voltages and currents are integers in thousandths (mV, mA); the  *)
(* value carried by a setpoint command is in hundredths, as '.2f' prints it.*)
(* The clock counts seconds in the charger and in the slew engine, and      *)
(* scheduler ticks (a fixed fraction of a second) in the logger.            *)
(* Arithmetic is exact; where Python's binary floating point makes the      *)
(* outcome of a rounding depend on the representation error of a decimal    *)
(* half, both outcomes are admitted (Fmt2, Round3).                         *)
(***************************************************************************)
EXTENDS Integers, Sequences, FiniteSets, TLC

VARIABLES
    pc,      \* position of the single control thread
    q,       \* status(): index of the next query of the snapshot, 0..4
    ret,     \* position the running callee (status(), time.sleep()) returns to
    clock,   \* wall-clock time, time.time()
    wire,    \* commands written to the serial channel, in order, with their time
    args,    \* the tool's parsed arguments
    frame,   \* local variables of the running function
    s,       \* the snapshot being built / last returned by status()
    ofh,     \* the tool's output file: "none", "open" or "closed"
    csv,     \* what csvw.writerow() has written: headers and rows, in order
    snaps,   \* history: the snapshots status() has returned, with their start time
    sleeps,  \* history: the sleeps begun, with the number of commands written before
    exc,     \* the exception that ended the tool, or "none"
    reads    \* history: the readline() calls, with the number of commands written before

vars == <<pc, q, ret, clock, wire, args, frame, s, ofh, csv, snaps, sleeps, exc, reads>>

(***************************************************************************)
(* Bounds of the model.                                                    *)
(***************************************************************************)
MaxPolls == 3        \* snapshots taken by one charge session before the model stops
MaxCount == 4        \* largest step count of a slew
MaxLatency == 3      \* longest snapshot read of the logger, in ticks
MaxDuration == 6     \* longest logging run, in ticks

(***************************************************************************)
(* Helpers.                                                                *)
(***************************************************************************)
Last(seq) == seq[Len(seq)]

\* int(x): truncation toward zero of the rational n / d, d > 0
Trunc(n, d) == IF n >= 0 THEN n \div d ELSE -((-n) \div d)

RECURSIVE BitAnd(_, _)
\* a & b on non-negative integers
BitAnd(a, b) ==
    IF a = 0 \/ b = 0 THEN 0
    ELSE (a % 2) * (b % 2) + 2 * BitAnd(a \div 2, b \div 2)

\* a >> n
ShiftRight(a, n) == a \div (2 ^ n)

(***************************************************************************)
(* Transport: _cmdbn writes one terminator-ended command.                  *)
(***************************************************************************)
Cmd(c, v) == [c |-> c, v |-> v, t |-> clock, nl |-> "\n"]

\* _cmdbn(c): self.s.write(...)
Written(c, v) == Append(wire, Cmd(c, v))

\* f'{x:.2f}' of x thousandths, in hundredths.  A value exactly halfway is
\* rounded half-to-even when it is a binary fraction (a multiple of 0.125);
\* any other decimal half is stored slightly above or below, so either
\* neighbour can be printed.
Fmt2(x) ==
    LET lo == x \div 10
        r  == x % 10
    IN  IF r < 5 THEN {lo}
        ELSE IF r > 5 THEN {lo + 1}
        ELSE IF x % 125 = 0 THEN {IF lo % 2 = 0 THEN lo ELSE lo + 1}
        ELSE {lo, lo + 1}

\* _append10(c, t): the command c followed by '1' or '0'
append10(c, t) == Cmd(c, IF t THEN 1 ELSE 0)

\* enable(on): _cmdbn('OUT1' / 'OUT0')
enable(on) == Append(wire, append10("OUT", on))

\* disable(off=True): enable(on = not off)
disable == enable(FALSE)

\* enableOVP writing the command for on and the command for off
enableOVP_Twice(on) == Append(Append(wire, append10("OVP", on)), append10("OVP", ~on))

\* enableOVP(on): _cmdbn('OVP1' / 'OVP0')
enableOVP(on) == Append(wire, append10("OVP", on))

\* enableOCP(on): _cmdbn('OCP1' / 'OCP0')
enableOCP(on) == Append(wire, append10("OCP", on))

\* m_store accepting slot 0
m_store_FromZero(n) == IF (n >= 0) /\ (n <= 5) THEN Written("SAV", n) ELSE wire

\* m_store(n): _cmdbn(f'SAV{n}') for n in 1..5, else nothing
m_store(n) == IF (n > 0) /\ (n <= 5) THEN Written("SAV", n) ELSE wire

\* m_recall(n): _cmdbn(f'RCL{n}') for n in 1..5, else nothing
m_recall(n) == IF (n > 0) /\ (n <= 5) THEN Written("RCL", n) ELSE wire

\* setVolts(v): _cmdbn(f'VSET1:{v:.2f}')
setVolts(v) == {Written("VSET1:", c) : c \in Fmt2(v)}

\* setCurr(i): _cmdbn(f'ISET1:{i:.2f}')
setCurr(i) == {Written("ISET1:", c) : c \in Fmt2(i)}

(***************************************************************************)
(* status(): five queries, then the decoded snapshot.                      *)
(***************************************************************************)
Queries == <<"STATUS?", "VSET1?", "ISET1?", "VOUT1?", "IOUT1?">>

\* DecodeStatus taking the output flag from bit 7
DecodeStatus_OutputBit7(s_byte) ==
    LET trk_bits == BitAnd(ShiftRight(s_byte, 2), 3)
    IN  [ch0_mode |-> IF BitAnd(s_byte, 1) # 0 THEN "CV" ELSE "CC",
         ch1_mode |-> IF BitAnd(s_byte, 2) # 0 THEN "CV" ELSE "CC",
         tracking |-> IF trk_bits = 0 THEN "independent"
                      ELSE IF trk_bits = 3 THEN "parallel" ELSE "series",
         beep     |-> BitAnd(s_byte, 16) # 0,
         lock     |-> BitAnd(s_byte, 32) # 0,
         output   |-> BitAnd(s_byte, 128) # 0]

\* lines 121-129: status byte -> the 'status' dictionary of the snapshot
DecodeStatus(s_byte) ==
    LET trk_bits == BitAnd(ShiftRight(s_byte, 2), 3)
    IN  [ch0_mode |-> IF BitAnd(s_byte, 1) # 0 THEN "CV" ELSE "CC",
         ch1_mode |-> IF BitAnd(s_byte, 2) # 0 THEN "CV" ELSE "CC",
         tracking |-> IF trk_bits = 0 THEN "independent"
                      ELSE IF trk_bits = 3 THEN "parallel" ELSE "series",
         beep     |-> BitAnd(s_byte, 16) # 0,
         lock     |-> BitAnd(s_byte, 32) # 0,
         output   |-> BitAnd(s_byte, 64) # 0]

\* the set values a slew may find on the device (mV / mA)
Starts == {0, 7, 3000}

\* What the device may answer to each query, per tool.  The values that no
\* tool branches on are drawn from one-element sets.
StatusBytes == IF args.tool = "status" THEN 0 .. 255 ELSE {65}
SetVoltsReplies == IF ret = "sl_plan" /\ frame.what = "volts" THEN Starts ELSE {4200}
SetCurrReplies  == IF ret = "sl_plan" /\ frame.what = "curr" THEN Starts ELSE {1100}
OutVoltsReplies == {4100}
OutCurrReplies  == IF args.tool = "charge" THEN {44, 45, 1100} ELSE {500}

Replies(k) ==
    CASE k = 0 -> StatusBytes
      [] k = 1 -> SetVoltsReplies
      [] k = 2 -> SetCurrReplies
      [] k = 3 -> OutVoltsReplies
      [] k = 4 -> OutCurrReplies

\* Time one whole snapshot read takes, accounted at its first query.
Latencies ==
    IF args.tool = "log" THEN 0 .. MaxLatency ELSE {1}

EmptySnapshot ==
    [at |-> 0, took |-> 0, time |-> 0, s_byte |-> 0, status |-> DecodeStatus(0),
     settings |-> [volts |-> 0, curr |-> 0],
     output |-> [volts |-> 0, curr |-> 0, power |-> 0]]

\* The snapshot after query k was answered with r.
Answered(k, r) ==
    CASE k = 0 -> [s EXCEPT !.s_byte = r, !.status = DecodeStatus(r), !.time = clock']
      [] k = 1 -> [s EXCEPT !.settings.volts = r]
      [] k = 2 -> [s EXCEPT !.settings.curr = r]
      [] k = 3 -> [s EXCEPT !.output.volts = r]
      [] k = 4 -> [s EXCEPT !.output.curr = r,
                            !.output.power = s.output.volts * r]

\* Python values that the code tells apart: None and bytes objects
None == [type |-> "NoneType", val |-> <<>>]
Bytes(b) == [type |-> "bytes", val |-> b]

\* x is None
IsNone(x) == x.type = "NoneType"

\* Serial.readline() when nothing arrives before the timeout: b''
ReadTimeout == Bytes(<<>>)

\* self.s.readline()
ReadLine == Append(reads, [n |-> Len(wire)])

\* _cmdb / _cmds, first half: the query of status() is written
StatusWrite ==
    /\ pc = "status"
    /\ wire' = Written(Queries[q + 1], 0)
    /\ pc' = "status_read"
    /\ UNCHANGED <<q, ret, clock, args, frame, s, ofh, csv, snaps, sleeps, exc, reads>>

\* _cmdb / _cmds, second half: one line is read and put into the snapshot
StatusRead ==
    /\ pc = "status_read"
    /\ reads' = ReadLine
    /\ \E lat \in (IF q = 0 THEN Latencies ELSE {0}) : clock' = clock + lat
    /\ \E r \in Replies(q) :
         LET sn == Answered(q, r)
             s1 == IF q = 0 THEN [sn EXCEPT !.at = clock, !.took = clock' - clock] ELSE sn
         IN  /\ s' = s1
             /\ IF q = 4
                  THEN /\ pc' = ret
                       /\ q' = 0
                       /\ snaps' = Append(snaps, [at |-> s1.at, took |-> s1.took,
                                                       curr |-> s1.output.curr])
                  ELSE /\ pc' = "status"
                       /\ q' = q + 1
                       /\ snaps' = snaps
    /\ UNCHANGED <<ret, wire, args, frame, ofh, csv, sleeps, exc>>

\* What status() raises when query k was answered with the line read:
\* lines 111-113 for the status byte (the None test, then s[0]), float() at
\* lines 131-135 for the four numbers.
StatusError(k, line) ==
    IF k = 0
      THEN IF IsNone(line) THEN "Could not get PSU status"
           ELSE IF Len(line.val) = 0 THEN "IndexError" ELSE "none"
      ELSE IF Len(line.val) = 0 THEN "ValueError" ELSE "none"

\* The device does not answer: readline() returns b'' at the timeout and
\* status() raises; nothing in status() or in its callers catches it.  The
\* exception ends the tool; on its way out of the logger it leaves the with
\* block of go(), which closes the file.
StatusNoReply ==
    /\ pc = "status_read"
    /\ reads' = ReadLine
    /\ clock' = clock + args.timeout
    /\ exc' = StatusError(q, ReadTimeout)
    /\ pc' = "failed"
    /\ ofh' = IF args.tool = "log" /\ ofh = "open" THEN "closed" ELSE ofh
    /\ UNCHANGED <<q, ret, wire, args, frame, s, csv, snaps, sleeps>>

\* time.sleep(d) begins
Slept(d) == Append(sleeps, [d |-> d, t |-> clock, n |-> Len(wire)])

\* when the sleep in progress ends
WakeTime == Last(sleeps).t + Last(sleeps).d

\* time.sleep(): half of the sleep in progress has passed
SleepElapses ==
    /\ pc = "sleep"
    /\ clock = Last(sleeps).t
    /\ Last(sleeps).d >= 2
    /\ clock' = clock + Last(sleeps).d \div 2
    /\ UNCHANGED <<pc, q, ret, wire, args, frame, s, ofh, csv, snaps, sleeps, exc, reads>>

\* time.sleep() returns
Wake ==
    /\ pc = "sleep"
    /\ clock' = WakeTime
    /\ pc' = ret
    /\ UNCHANGED <<q, ret, wire, args, frame, s, ofh, csv, snaps, sleeps, exc, reads>>

(***************************************************************************)
(* korad_charge.py: KoradLipoCharger.charge and graceful_exit.             *)
(***************************************************************************)
SecondsPerHour == 3600
StartDelay == 5
SettleDelay == 1

ChargeArgs ==
    [tool : {"charge"}, timeout : {1},
     capacity : {2200, 2250},      \* mAh
     rate : {50},                  \* hundredths of C
     volts : {4175, 4200},         \* mV
     cutoff : {2},                 \* hundredths of C
     max_time : {0, 1},            \* hours
     check_interval : {60, 3600},  \* seconds
     log : BOOLEAN]

ChargeFrame ==
    [cc_current |-> 0, eoc_current |-> 0, cv_voltage |-> 0,
     finished |-> FALSE, now |-> 0, end_time |-> 0, first_iter |-> TRUE]

ChargeInit ==
    /\ pc = "c_disable"
    /\ q = 0
    /\ ret = "c_log"
    /\ clock = 0
    /\ wire = <<>>
    /\ args \in ChargeArgs
    /\ frame = ChargeFrame
    /\ s = EmptySnapshot
    /\ ofh = "none"
    /\ csv = <<>>
    /\ snaps = <<>>
    /\ sleeps = <<>>
    /\ exc = "none"
    /\ reads = <<>>

\* line 101: self.k.disable()
ChargeDisable ==
    /\ pc = "c_disable"
    /\ wire' = disable
    /\ pc' = "c_plan"
    /\ UNCHANGED <<q, ret, clock, args, frame, s, ofh, csv, snaps, sleeps, exc, reads>>

\* lines 102-118: the plan, the log file, the 5 s start delay
ChargePlan ==
    /\ pc = "c_plan"
    /\ frame' = [frame EXCEPT !.cc_current = (args.capacity * args.rate) \div 100,
                              !.eoc_current = (args.capacity * args.cutoff) \div 100,
                              !.cv_voltage = args.volts]
    /\ ofh' = IF args.log THEN "open" ELSE ofh
    /\ sleeps' = Slept(StartDelay)
    /\ pc' = "sleep"
    /\ ret' = "c_setv"
    /\ UNCHANGED <<q, clock, wire, args, s, csv, snaps, exc, reads>>

\* line 122: self.k.setVolts(cv_voltage)
ChargeSetVolts ==
    /\ pc = "c_setv"
    /\ wire' \in setVolts(frame.cv_voltage)
    /\ pc' = "c_seti"
    /\ UNCHANGED <<q, ret, clock, args, frame, s, ofh, csv, snaps, sleeps, exc, reads>>

\* line 123: self.k.setCurr(cc_current)
ChargeSetCurr ==
    /\ pc = "c_seti"
    /\ wire' \in setCurr(frame.cc_current)
    /\ pc' = "c_enable"
    /\ UNCHANGED <<q, ret, clock, args, frame, s, ofh, csv, snaps, sleeps, exc, reads>>

\* line 124: self.k.enable()
ChargeEnable ==
    /\ pc = "c_enable"
    /\ wire' = enable(TRUE)
    /\ pc' = "c_settle"
    /\ UNCHANGED <<q, ret, clock, args, frame, s, ofh, csv, snaps, sleeps, exc, reads>>

\* ChargeSettle without the settle delay
ChargeSettle_NoDelay ==
    /\ pc = "c_settle"
    /\ frame' = [frame EXCEPT !.finished = FALSE,
                              !.now = clock,
                              !.end_time = clock + args.max_time * SecondsPerHour,
                              !.first_iter = TRUE]
    /\ pc' = "c_while"
    /\ UNCHANGED <<q, ret, clock, wire, args, s, ofh, csv, snaps, sleeps, exc, reads>>

\* lines 126-132: finished, now, end_time, the 1 s settle delay, first_iter
ChargeSettle ==
    /\ pc = "c_settle"
    /\ frame' = [frame EXCEPT !.finished = FALSE,
                              !.now = clock,
                              !.end_time = clock + args.max_time * SecondsPerHour,
                              !.first_iter = TRUE]
    /\ sleeps' = Slept(SettleDelay)
    /\ pc' = "sleep"
    /\ ret' = "c_while"
    /\ UNCHANGED <<q, clock, wire, args, s, ofh, csv, snaps, exc, reads>>

\* line 133: while not finished and now < end_time
\* (now is the local assigned at line 127; the loop body never assigns it)
ChargeLoopTest == ~frame.finished /\ frame.now < frame.end_time

\* lines 133-134: the loop test; the body starts with s = self.k.status()
ChargeWhile ==
    /\ pc = "c_while"
    /\ IF ChargeLoopTest
         THEN /\ Len(snaps) < MaxPolls
              /\ pc' = "status"
              /\ q' = 0
              /\ ret' = "c_log"
         ELSE /\ pc' = "c_final"
              /\ UNCHANGED <<q, ret>>
    /\ UNCHANGED <<clock, wire, args, frame, s, ofh, csv, snaps, sleeps, exc, reads>>

\* lines 135-141: the console line, and header (first time) and row to the log
\* ChargeLog writing the header before every row
ChargeLog_HeaderEveryRow ==
    /\ pc = "c_log"
    /\ IF ofh # "none"
         THEN /\ csv' = csv \o <<"header", "row">>
              /\ frame' = [frame EXCEPT !.first_iter = FALSE]
         ELSE UNCHANGED <<csv, frame>>
    /\ pc' = "c_check"
    /\ UNCHANGED <<q, ret, clock, wire, args, s, ofh, snaps, sleeps, exc, reads>>

ChargeLog ==
    /\ pc = "c_log"
    /\ IF ofh # "none"
         THEN /\ csv' = csv \o (IF frame.first_iter THEN <<"header">> ELSE <<>>) \o <<"row">>
              /\ frame' = [frame EXCEPT !.first_iter = FALSE]
         ELSE UNCHANGED <<csv, frame>>
    /\ pc' = "c_check"
    /\ UNCHANGED <<q, ret, clock, wire, args, s, ofh, snaps, sleeps, exc, reads>>

\* ThresholdReached with the boundary excluded
ThresholdReached_Strict(curr, eoc_current) == curr < eoc_current

\* line 143: s['output']['curr'] <= eoc_current
ThresholdReached(curr, eoc_current) == curr <= eoc_current

\* lines 143-146: end-of-charge test, else the poll-interval sleep
ChargeCheck ==
    /\ pc = "c_check"
    /\ IF ThresholdReached(s.output.curr, frame.eoc_current)
         THEN /\ frame' = [frame EXCEPT !.finished = TRUE]
              /\ pc' = "c_while"
              /\ UNCHANGED <<ret, sleeps>>
         ELSE /\ sleeps' = Slept(args.check_interval)
              /\ pc' = "sleep"
              /\ ret' = "c_while"
              /\ UNCHANGED frame
    /\ UNCHANGED <<q, clock, wire, args, s, ofh, csv, snaps, exc, reads>>

\* ChargeFinal without the disable
ChargeFinal_NoDisable ==
    /\ pc = "c_final"
    /\ pc' = "c_close"
    /\ UNCHANGED <<q, ret, clock, wire, args, frame, s, ofh, csv, snaps, sleeps, exc, reads>>

\* line 148: self.k.disable()
ChargeFinal ==
    /\ pc = "c_final"
    /\ wire' = disable
    /\ pc' = "c_close"
    /\ UNCHANGED <<q, ret, clock, args, frame, s, ofh, csv, snaps, sleeps, exc, reads>>

\* lines 149-152: close the log; 'Charging complete.'
ChargeClose ==
    /\ pc = "c_close"
    /\ ofh' = IF ofh # "none" THEN "closed" ELSE ofh
    /\ pc' = "c_done"
    /\ UNCHANGED <<q, ret, clock, wire, args, frame, s, csv, snaps, sleeps, exc, reads>>

ChargeRunning ==
    pc \in {"c_disable", "c_plan", "c_setv", "c_seti", "c_enable", "c_settle",
            "c_while", "status", "status_read", "sleep", "c_log", "c_check",
            "c_final", "c_close"}

\* a handler that only closes the log and exits
ExitWrites_Nothing == wire

\* what graceful_exit writes to the device: self.k.disable()
ExitWrites == disable

\* lines 20-30: SIGINT: disable the output, close the log, sys.exit(1).
\* The handler runs wherever charge() is: between two of its steps, between
\* the write and the read of a query, or in a sleep in progress, which it ends.
ChargeInterrupt ==
    /\ args.tool = "charge"
    /\ ChargeRunning
    /\ wire' = ExitWrites
    /\ ofh' = IF ofh # "none" THEN "closed" ELSE ofh
    /\ pc' = "c_aborted"
    /\ UNCHANGED <<q, ret, clock, args, frame, s, csv, snaps, sleeps, exc, reads>>

ChargeNext ==
    \/ ChargeDisable
    \/ ChargePlan
    \/ ChargeSetVolts
    \/ ChargeSetCurr
    \/ ChargeEnable
    \/ ChargeSettle
    \/ ChargeWhile
    \/ StatusWrite
    \/ StatusRead
    \/ StatusNoReply
    \/ SleepElapses
    \/ Wake
    \/ ChargeLog
    \/ ChargeCheck
    \/ ChargeFinal
    \/ ChargeClose
    \/ ChargeInterrupt

ChargeSpec == ChargeInit /\ [][ChargeNext]_vars

(***************************************************************************)
(* Charge session: properties.                                             *)
(***************************************************************************)
Out0(e) == e.c = "OUT" /\ e.v = 0
Out1(e) == e.c = "OUT" /\ e.v = 1

\* the session's terminal states
Completed == pc = "c_done"
CompletedThreshold == Completed /\ frame.finished
CompletedTimeExpired == Completed /\ ~frame.finished
Aborted == pc = "c_aborted"

\* the polls that started at or after the deadline
LatePolls == {i \in 1 .. Len(snaps) : snaps[i].at >= frame.end_time}

\* the measured current of poll i is at or below capacity x cutoff
AtOrBelowEoc(i) == snaps[i].curr * 100 <= args.capacity * args.cutoff

\* C1: a session whose current stays above eoc_current ends with
\* Completed(TimeExpired) once start + max_duration_hours has passed: the
\* polling loop is left at the deadline, so at most the one poll that finds
\* the deadline passed starts at or after it.
C1_LoopExitsAtDeadline ==
    (args.tool = "charge" /\ args.max_time > 0 /\ pc \notin {"c_disable", "c_plan",
        "c_setv", "c_seti", "c_enable", "c_settle"})
        => Cardinality(LatePolls) <= 1

\* C2: in every terminal state of a charge session (Completed(*) or
\* Aborted(Interrupted)) OUT0 has been written and is the last command written.
C2_TerminalOutputDisabledLast ==
    (Completed \/ Aborted) => (Len(wire) > 0 /\ Out0(Last(wire)))

C2_Witness ==
    /\ CompletedThreshold
    /\ Len(snaps) = 2
    /\ Len(wire) > 10

\* C3: a session whose snapshot read fails ends with OUT0 written, so the
\* output is not left enabled.
C3_FailedSessionDisabled ==
    (args.tool = "charge" /\ pc = "failed") => (Len(wire) > 0 /\ Out0(Last(wire)))

\* the commands the session itself wrote (without the handler's OUT0)
SessionWire == IF Aborted THEN SubSeq(wire, 1, Len(wire) - 1) ELSE wire

\* C4: arming writes OUT0, VSET1:<cv_voltage>, ISET1:<capacity x rate>, OUT1
\* in this order; OUT1 is never written before both setpoints; no snapshot
\* query is written before the settle delay after OUT1 has elapsed.
C4_ArmingOrder ==
    LET w == SessionWire
    IN  /\ Len(w) >= 1 => Out0(w[1])
        /\ Len(w) >= 2 => (w[2].c = "VSET1:" /\ w[2].v \in Fmt2(args.volts))
        /\ Len(w) >= 3 => (w[3].c = "ISET1:"
                           /\ \E cc \in 0 .. 10000 :
                                /\ cc * 100 = args.capacity * args.rate
                                /\ w[3].v \in Fmt2(cc))
        /\ Len(w) >= 4 => Out1(w[4])
        /\ \A i \in 1 .. Len(w) : Out1(w[i]) => i = 4
        /\ \A i \in 1 .. Len(w) :
             w[i].c \in {"STATUS?", "VSET1?", "ISET1?", "VOUT1?", "IOUT1?"}
                => (i > 4 /\ w[i].t >= w[4].t + SettleDelay)

C4_Witness ==
    /\ args.tool = "charge"
    /\ pc = "c_log"
    /\ Len(snaps) = 1
    /\ wire[4].t + SettleDelay = wire[5].t

\* index in wire of the last measured-current query
LastIout ==
    CHOOSE i \in 1 .. Len(wire) :
        /\ wire[i].c = "IOUT1?"
        /\ \A j \in (i + 1) .. Len(wire) : wire[j].c # "IOUT1?"

\* C5: the first poll whose measured current is <= eoc_current (boundary
\* included) ends the session with Completed(ThresholdReached): it is the last
\* snapshot, no sleep follows it, and the loop is not left at an earlier poll
\* unless the deadline has passed.
C5_ThresholdEndsSession ==
    args.tool = "charge" =>
        /\ \A n \in 1 .. Len(snaps) : AtOrBelowEoc(n) =>
             /\ n = Len(snaps)
             /\ \A k \in 1 .. Len(sleeps) : sleeps[k].n < LastIout
             /\ pc = "c_while" => frame.finished
             /\ Completed => CompletedThreshold
        /\ CompletedThreshold => (Len(snaps) >= 1 /\ AtOrBelowEoc(Len(snaps)))
        /\ pc \in {"c_final", "c_close", "c_done"} =>
             \/ Len(snaps) >= 1 /\ AtOrBelowEoc(Len(snaps))
             \/ clock >= frame.end_time

C5_Witness ==
    /\ CompletedThreshold
    /\ Len(snaps) = 3
    /\ snaps[3].curr * 100 = args.capacity * args.cutoff
    /\ clock < frame.end_time

\* C6: an interrupt at any point of a charge session goes straight to the
\* disable step: OUT0 is appended to what was written so far, the log is not
\* left open, and nothing is written after that OUT0.
C6_InterruptDisables ==
    [][/\ (pc' = "c_aborted" /\ pc # "c_aborted") =>
            /\ wire' = Append(wire, [c |-> "OUT", v |-> 0, t |-> clock, nl |-> "\n"])
            /\ ofh' # "open"
       /\ pc = "c_aborted" => wire' = wire]_vars

C6_Witness ==
    /\ Aborted
    /\ q = 2
    /\ ofh = "closed"
    /\ Len(snaps) = 1

(***************************************************************************)
(* korad3005p.py: Korad3005p._slew, slewVolts, slewCurr.                   *)
(***************************************************************************)
SlewArgs ==
    [tool : {"slew"}, timeout : {1},
     what : {"volts", "curr", "power"},
     end : {0, 16, 125, 4175, 5000}, \* mV / mA
     count : 1 .. MaxCount,
     duration : {0, 60}]             \* seconds

\* _slew(what, end, count, duration): the parameters and the locals before
\* line 61; back is where the caller goes on after the call returns
SlewCall(what, end, count, duration, back) ==
    [what |-> what, end |-> end, count |-> count, duration |-> duration,
     back |-> back, start |-> 0, time_step |-> 0, v |-> 0, i |-> 0, fn |-> "None"]

SlewInit ==
    /\ pc = "status"
    /\ q = 0
    /\ ret = "sl_plan"
    /\ clock = 0
    /\ wire = <<>>
    /\ args \in SlewArgs
    /\ frame = SlewCall(args.what, args.end, args.count, args.duration, "sl_done")
    /\ s = EmptySnapshot
    /\ ofh = "none"
    /\ csv = <<>>
    /\ snaps = <<>>
    /\ sleeps = <<>>
    /\ exc = "none"
    /\ reads = <<>>

\* Round3 without the + 0.5: the thousandths cut off
Round3_Truncated(n, d) == {Trunc(n, d)}

\* line 78: int(x * 1000 + 0.5), x = n / d thousandths with d > 0.  Where x is
\* exactly halfway the floating-point product lands on either side; int()
\* cuts toward zero, so below zero the side that differs is the one above.
Round3(n, d) ==
    LET up == Trunc(2 * n + d, 2 * d)
    IN  IF (2 * n + d) % (2 * d) # 0 THEN {up}
        ELSE IF 2 * n + d > 0 THEN {up - 1, up}
        ELSE IF 2 * n + d = 0 THEN {up}
        ELSE {up, up + 1}

\* lines 68-72: the function that sets 'what', None for any other 'what'
SlewFn(what) ==
    IF what = "volts" THEN "setVolts" ELSE IF what = "curr" THEN "setCurr" ELSE "None"

\* lines 62-74: start, incr, time_step, v, and the function that sets 'what'.
\* s['settings'][what] at line 62 raises KeyError when 'what' is no key of the
\* settings; line 74 raises when no function was found.
\* incr = (end - start) / count is kept as the pair (end - start, count);
\* time_step = duration / count is whole for the durations used.
SlewPlan ==
    /\ pc = "sl_plan"
    /\ IF frame.what \notin DOMAIN s.settings
         THEN /\ exc' = "KeyError"
              /\ pc' = "failed"
              /\ UNCHANGED frame
         ELSE IF SlewFn(frame.what) = "None"
           THEN /\ exc' = "No function found"
                /\ pc' = "failed"
                /\ UNCHANGED frame
           ELSE /\ frame' = [frame EXCEPT
                      !.start = s.settings[frame.what],
                      !.time_step = frame.duration \div frame.count,
                      !.v = s.settings[frame.what],
                      !.i = 0,
                      !.fn = SlewFn(frame.what)]
                /\ pc' = "sl_loop"
                /\ exc' = exc
    /\ UNCHANGED <<q, ret, clock, wire, args, s, ofh, csv, snaps, sleeps, reads>>

\* fn(x): the bound method chosen at lines 69-72
Fn(x) == IF frame.fn = "setVolts" THEN setVolts(x) ELSE setCurr(x)

\* lines 76-81: one step: v += incr, round, send, sleep
SlewStep ==
    /\ pc = "sl_loop"
    /\ frame.i < frame.count
    /\ \E v \in Round3(frame.v * frame.count + (frame.end - frame.start), frame.count) :
         /\ frame' = [frame EXCEPT !.v = v, !.i = frame.i + 1]
         /\ wire' \in Fn(v)
    /\ sleeps' = Slept(frame.time_step)
    /\ pc' = "sleep"
    /\ ret' = "sl_loop"
    /\ UNCHANGED <<q, clock, args, s, ofh, csv, snaps, exc, reads>>

\* SlewFinal sending the running value instead of the target
SlewFinal_SendsV ==
    /\ pc = "sl_loop"
    /\ frame.i = frame.count
    /\ wire' \in Fn(frame.v)
    /\ pc' = frame.back
    /\ UNCHANGED <<q, ret, clock, args, frame, s, ofh, csv, snaps, sleeps, exc, reads>>

\* lines 83-84: after the loop, fn(end)
SlewFinal ==
    /\ pc = "sl_loop"
    /\ frame.i = frame.count
    /\ wire' \in Fn(frame.end)
    /\ pc' = frame.back
    /\ UNCHANGED <<q, ret, clock, args, frame, s, ofh, csv, snaps, sleeps, exc, reads>>

SlewNext ==
    \/ StatusWrite
    \/ StatusRead
    \/ StatusNoReply
    \/ SleepElapses
    \/ Wake
    \/ SlewPlan
    \/ SlewStep
    \/ SlewFinal

SlewSpec == SlewInit /\ [][SlewNext]_vars

(***************************************************************************)
(* Slew: properties.                                                       *)
(***************************************************************************)
\* the setpoint commands written, in order
Setpoints == SelectSeq(wire, LAMBDA e : e.c \in {"VSET1:", "ISET1:"})

SlewCmd == IF args.what = "volts" THEN "VSET1:" ELSE "ISET1:"

\* C7 as stated: a finished slew has written step_count + 1 setpoint commands
\* and the last one carries exactly the target end.
C7_LastSetpointIsEnd ==
    (args.tool = "slew" /\ pc = "sl_done") =>
        /\ Len(Setpoints) = args.count + 1
        /\ Last(Setpoints).v * 10 = args.end

\* C7 amended: a finished slew has written, after the five queries of its
\* snapshot, exactly step_count intermediate setpoint commands and then one
\* final setpoint command carrying end as printed with two decimals, whatever
\* the intermediate values were; it is end itself when end has no third decimal.
C7_LastSetpointIsEndTwoDecimals ==
    (args.tool = "slew" /\ pc = "sl_done") =>
        /\ Len(wire) = 5 + args.count + 1
        /\ \A k \in 6 .. Len(wire) : wire[k].c = SlewCmd
        /\ Len(Setpoints) = args.count + 1
        /\ Last(wire).v \in Fmt2(args.end)
        /\ args.end % 10 = 0 => Last(wire).v * 10 = args.end

C7_Witness ==
    /\ args.tool = "slew"
    /\ pc = "sl_done"
    /\ args.count = 3
    /\ frame.start = 0
    /\ args.end = 16
    /\ frame.v = 15
    /\ Last(wire).v = 2

(***************************************************************************)
(* korad_log.py: KoradCsvApp.go, writeLine and graceful_exit.              *)
(* Times are in scheduler ticks; period stands for 1.0 / args.rate.        *)
(***************************************************************************)
LogArgs ==
    [tool : {"log"}, timeout : {1},
     period : {2, 4},                \* ticks; rate = 1 / period
     duration : 1 .. MaxDuration]    \* ticks

LogFrame == [now |-> 0, end |-> 0, period |-> 0, deadline |-> 0, first |-> TRUE]

LogInit ==
    /\ pc = "l_open"
    /\ q = 0
    /\ ret = "l_write"
    /\ clock = 0
    /\ wire = <<>>
    /\ args \in LogArgs
    /\ frame = LogFrame
    /\ s = EmptySnapshot
    /\ ofh = "none"
    /\ csv = <<>>
    /\ snaps = <<>>
    /\ sleeps = <<>>
    /\ exc = "none"
    /\ reads = <<>>

\* lines 93-104: open the file; now, end, period, deadline, first
LogOpen ==
    /\ pc = "l_open"
    /\ ofh' = "open"
    /\ frame' = [now |-> clock, end |-> clock + args.duration, period |-> args.period,
                 deadline |-> clock + args.period, first |-> TRUE]
    /\ pc' = "l_while"
    /\ UNCHANGED <<q, ret, clock, wire, args, s, csv, snaps, sleeps, exc, reads>>

\* lines 105-107: while now < end: now = time.time(); then self.k.status().
\* Leaving the loop leaves the with block, which closes the file.
LogWhile ==
    /\ pc = "l_while"
    /\ IF frame.now < frame.end
         THEN /\ frame' = [frame EXCEPT !.now = clock]
              /\ pc' = "status"
              /\ q' = 0
              /\ ret' = "l_write"
              /\ UNCHANGED ofh
         ELSE /\ ofh' = "closed"
              /\ pc' = "l_done"
              /\ UNCHANGED <<q, ret, frame>>
    /\ UNCHANGED <<clock, wire, args, s, csv, snaps, sleeps, exc, reads>>

\* lines 86-89: writeLine(data, first)
writeLine(first) == csv \o (IF first THEN <<"header">> ELSE <<>>) \o <<"row">>

\* the scheduler sleeping one period after every capture, whatever it took
SleepTime_FixedPeriod(deadline, now) == args.period

\* line 109: sleep_time = deadline - now
SleepTime(deadline, now) == deadline - now

\* lines 107-112: write the line, first = False, sleep_time, deadline += period,
\* sleep when sleep_time > 0
LogWrite ==
    /\ pc = "l_write"
    /\ csv' = writeLine(frame.first)
    /\ LET sleep_time == SleepTime(frame.deadline, frame.now)
       IN  /\ frame' = [frame EXCEPT !.first = FALSE,
                                     !.deadline = frame.deadline + frame.period]
           /\ IF sleep_time > 0
                THEN /\ sleeps' = Slept(sleep_time)
                     /\ pc' = "sleep"
                     /\ ret' = "l_while"
                ELSE /\ pc' = "l_while"
                     /\ UNCHANGED <<sleeps, ret>>
    /\ UNCHANGED <<q, clock, wire, args, s, ofh, snaps, exc, reads>>

\* LogInterrupt acted on only between two iterations of the loop
LogInterrupt_AtBoundary ==
    /\ args.tool = "log"
    /\ pc = "l_while"
    /\ ofh' = IF ofh = "open" THEN "closed" ELSE ofh
    /\ pc' = "l_aborted"
    /\ UNCHANGED <<q, ret, clock, wire, args, frame, s, csv, snaps, sleeps, exc, reads>>

\* lines 27-34: SIGINT: close the file, sys.exit(1).  The handler runs
\* wherever go() is, as the handler of the charger does.
LogInterrupt ==
    /\ args.tool = "log"
    /\ pc \in {"l_open", "l_while", "status", "status_read", "sleep", "l_write"}
    /\ ofh' = IF ofh = "open" THEN "closed" ELSE ofh
    /\ pc' = "l_aborted"
    /\ UNCHANGED <<q, ret, clock, wire, args, frame, s, csv, snaps, sleeps, exc, reads>>

LogNext ==
    \/ LogOpen
    \/ LogWhile
    \/ StatusWrite
    \/ StatusRead
    \/ StatusNoReply
    \/ SleepElapses
    \/ Wake
    \/ LogWrite
    \/ LogInterrupt

LogSpec == LogInit /\ [][LogNext]_vars

(***************************************************************************)
(* Sampling scheduler: properties.                                         *)
(***************************************************************************)
\* ceil(a / b) for a >= 0, b > 0
CeilDiv(a, b) == (a + b - 1) \div b

\* every capture so far took less than one period
AllBelowPeriod == \A k \in 1 .. Len(snaps) : snaps[k].took < args.period

\* the time the run started: the 'now' of line 99
LogStart == frame.end - args.duration

\* C8: with capture latency below one period a finished run has taken exactly
\* ceil(duration x rate) captures, and the deadline advances by one period per
\* capture.
C8_CaptureCount ==
    (args.tool = "log" /\ pc = "l_done" /\ AllBelowPeriod) =>
        /\ Len(snaps) = CeilDiv(args.duration, args.period)
        /\ frame.deadline = LogStart + (Len(snaps) + 1) * args.period

\* how far after start + (k - 1) x period the k-th capture started
Lateness(k) == snaps[k].at - (LogStart + (k - 1) * args.period)

\* C9: while every capture takes less than one period, the k-th capture starts
\* no earlier than start + (k - 1) x period and later than it by at most the
\* latency of the capture before it, for every k: the error does not add up.
C9_NoCumulativeDrift ==
    (args.tool = "log" /\ pc # "l_open" /\ AllBelowPeriod) =>
        \A k \in 1 .. Len(snaps) :
            /\ Lateness(k) >= 0
            /\ Lateness(k) <= (IF k = 1 THEN 0 ELSE snaps[k - 1].took)

C9_Witness ==
    /\ args.tool = "log"
    /\ AllBelowPeriod
    /\ Len(snaps) = 4
    /\ \A k \in 1 .. 3 : snaps[k].took > 0
    /\ Lateness(4) = snaps[3].took

(***************************************************************************)
(* korad_control.py: KoradApp.showStatus (--status): one snapshot, printed.*)
(***************************************************************************)
StatusArgs == [tool : {"status"}, timeout : {1}]

StatusInit ==
    /\ pc = "t_status"
    /\ q = 0
    /\ ret = "t_show"
    /\ clock = 0
    /\ wire = <<>>
    /\ args \in StatusArgs
    /\ frame = [onoff |-> "None"]
    /\ s = EmptySnapshot
    /\ ofh = "none"
    /\ csv = <<>>
    /\ snaps = <<>>
    /\ sleeps = <<>>
    /\ exc = "none"
    /\ reads = <<>>

\* line 139: s = self.k.status()
ShowStatusCall ==
    /\ pc = "t_status"
    /\ pc' = "status"
    /\ q' = 0
    /\ ret' = "t_show"
    /\ UNCHANGED <<clock, wire, args, frame, s, ofh, csv, snaps, sleeps, exc, reads>>

\* lines 140-148: the printed report; onoff from s['status']['output']
ShowStatus ==
    /\ pc = "t_show"
    /\ frame' = [onoff |-> IF s.status.output THEN "ON" ELSE "OFF"]
    /\ pc' = "t_done"
    /\ UNCHANGED <<q, ret, clock, wire, args, s, ofh, csv, snaps, sleeps, exc, reads>>

StatusNext ==
    \/ ShowStatusCall
    \/ StatusWrite
    \/ StatusRead
    \/ StatusNoReply
    \/ ShowStatus

StatusSpec == StatusInit /\ [][StatusNext]_vars

(***************************************************************************)
(* Status decoding: properties.                                            *)
(***************************************************************************)
\* bit i of the byte b
Bit(b, i) == (b \div (2 ^ i)) % 2

\* the status byte has been read and decoded
Decoded == args.tool = "status" /\ (pc \in {"t_show", "t_done"} \/ (pc \in {"status", "status_read"} /\ q > 0))

\* C10: the decoded fields follow the bit table for every status byte:
\* bit 0 channel-0 CV (else CC), bit 1 channel-1 CV, bits 2-3 tracking
\* (00 independent, 11 parallel, else series), bit 4 beep, bit 5 lock,
\* bit 6 output; bit 7 changes no field.
C10_StatusBitTable ==
    Decoded =>
        LET b == s.s_byte
            d == s.status
        IN  /\ b \in 0 .. 255
            /\ (d.ch0_mode = "CV") = (Bit(b, 0) = 1)
            /\ (d.ch0_mode = "CC") = (Bit(b, 0) = 0)
            /\ (d.ch1_mode = "CV") = (Bit(b, 1) = 1)
            /\ (d.ch1_mode = "CC") = (Bit(b, 1) = 0)
            /\ (d.tracking = "independent") = (Bit(b, 2) = 0 /\ Bit(b, 3) = 0)
            /\ (d.tracking = "parallel") = (Bit(b, 2) = 1 /\ Bit(b, 3) = 1)
            /\ (d.tracking = "series") = (Bit(b, 2) # Bit(b, 3))
            /\ d.beep = (Bit(b, 4) = 1)
            /\ d.lock = (Bit(b, 5) = 1)
            /\ d.output = (Bit(b, 6) = 1)
            /\ b >= 128 => d = DecodeStatus(b - 128)

C10_Witness ==
    /\ args.tool = "status"
    /\ pc = "t_done"
    /\ s.s_byte = 140
    /\ s.status.tracking = "parallel"
    /\ ~s.status.output
    /\ frame.onoff = "OFF"
(***************************************************************************)
(* status(): failures.                                                     *)
(***************************************************************************)
\* C12: status() writes the status-byte query first, then the set-voltage,
\* set-current, measured-voltage and measured-current queries in that order;
\* when the status-byte query is answered with no data within the timeout,
\* status() fails with 'Could not get PSU status', returns no snapshot and
\* writes none of the four numeric queries.
C12_NoStatusByteIsNoResponse ==
    args.tool = "status" =>
        /\ Len(wire) <= Len(Queries)
        /\ \A i \in 1 .. Len(wire) : wire[i].c = Queries[i]
        /\ (pc = "failed" /\ q = 0) =>
               /\ exc = "Could not get PSU status"
               /\ Len(wire) = 1
               /\ s = EmptySnapshot

(***************************************************************************)
(* The constructor of the driver (korad3005p.py, lines 23-37).  Lines of   *)
(* bytes and strings are sequences of one-character strings.               *)
(***************************************************************************)
Digits == {"0", "1", "2", "3", "4", "5", "6", "7", "8", "9"}

\* a byte outside ASCII, as line noise may produce
NonAscii == "#ff"

\* bytes.decode('ascii', errors='ignore'): the bytes outside ASCII are dropped
Decode(b) == [type |-> "str", val |-> SelectSeq(b.val, LAMBDA ch : ch # NonAscii)]

\* the number of digits of str from position i on
RECURSIVE DigitRun(_, _)
DigitRun(str, i) ==
    IF i <= Len(str) /\ str[i] \in Digits THEN 1 + DigitRun(str, i + 1) ELSE 0

\* the literal lit stands in str at position i
Lit(str, i, lit) ==
    /\ i + Len(lit) - 1 <= Len(str)
    /\ \A j \in 1 .. Len(lit) : str[i + j - 1] = lit[j]

\* the pattern of line 30, r'KORAD KA(\d+)P V(\d+\.?\d+) SN:(\d+)', matched
\* at position a of str: ok and the three groups.  A run of digits ends at a
\* character that is no digit, so the groups are the maximal runs; group 2
\* is a run, then either a point and a further run or nothing, the run then
\* being of two digits at least.
MatchAt(str, a) ==
    LET p1 == a + 8
        n1 == DigitRun(str, p1)
        p2 == p1 + n1 + 3
        n2 == DigitRun(str, p2)
        dot == p2 + n2 <= Len(str) /\ str[p2 + n2] = "."
        n3 == IF dot THEN DigitRun(str, p2 + n2 + 1) ELSE 0
        e2 == IF dot THEN p2 + n2 + 1 + n3 ELSE p2 + n2
        p3 == e2 + 4
        n4 == DigitRun(str, p3)
    IN  [ok |-> /\ Lit(str, a, <<"K", "O", "R", "A", "D", " ", "K", "A">>)
                /\ n1 >= 1
                /\ Lit(str, p1 + n1, <<"P", " ", "V">>)
                /\ n2 >= 1
                /\ IF dot THEN n3 >= 1 ELSE n2 >= 2
                /\ Lit(str, e2, <<" ", "S", "N", ":">>)
                /\ n4 >= 1,
         g1 |-> SubSeq(str, p1, p1 + n1 - 1),
         g2 |-> SubSeq(str, p2, e2 - 1),
         g3 |-> SubSeq(str, p3, p3 + n4 - 1)]

\* re.search: the match at the leftmost position where there is one, else None
Search(str) ==
    LET hits == {a \in 1 .. Len(str) : MatchAt(str, a).ok}
    IN  IF hits = {} THEN None
        ELSE [type |-> "Match",
              val |-> MatchAt(str, CHOOSE a \in hits : \A b \in hits : a <= b)]

\* What a device may send as its identity line, in pieces.
IdnPrefixes == {<<>>, <<"x">>, <<NonAscii>>}
IdnModels == {<<>>, <<"3", "0">>, <<"3", "0", "0", "5">>}
IdnVersions == {<<"4">>, <<"4", "2">>, <<"4", ".">>, <<"4", ".", "2">>, <<".", "2">>}
IdnSerials == {<<>>, <<"1">>, <<"1", "2", "3", "4", "5", "6", "7", "8">>}
IdnLines ==
    {Bytes(<<"H", "E", "L", "L", "O">>)} \cup
    {Bytes(pre \o <<"K", "O", "R", "A", "D", " ", "K", "A">> \o mo \o <<"P", " ", "V">>
             \o ve \o <<" ", "S", "N", ":">> \o sn) :
        pre \in IdnPrefixes, mo \in IdnModels, ve \in IdnVersions, sn \in IdnSerials}

ConnectArgs == [tool : {"connect"}, timeout : {1, 2}]

\* the locals of __init__ and the attribute hw
ConnectFrame == [init_str |-> None, hw |-> None]

ConnectInit ==
    /\ pc = "k_wake"
    /\ q = 0
    /\ ret = "none"
    /\ clock = 0
    /\ wire = <<>>
    /\ args \in ConnectArgs
    /\ frame = ConnectFrame
    /\ s = EmptySnapshot
    /\ ofh = "none"
    /\ csv = <<>>
    /\ snaps = <<>>
    /\ sleeps = <<>>
    /\ exc = "none"
    /\ reads = <<>>

\* line 25, self._cmdb(''): an empty command is written ...
ConnectWake ==
    /\ pc = "k_wake"
    /\ wire' = Written("", 0)
    /\ pc' = "k_wake_read"
    /\ UNCHANGED <<q, ret, clock, args, frame, s, ofh, csv, snaps, sleeps, exc, reads>>

\* ... and a line is read and dropped; the device sends one or the read
\* times out
ConnectWakeRead ==
    /\ pc = "k_wake_read"
    /\ reads' = ReadLine
    /\ \E answered \in BOOLEAN : clock' = IF answered THEN clock ELSE clock + args.timeout
    /\ pc' = "k_idn"
    /\ UNCHANGED <<q, ret, wire, args, frame, s, ofh, csv, snaps, sleeps, exc>>

\* line 26, self._cmds('*IDN?'): the query is written ...
ConnectIdn ==
    /\ pc = "k_idn"
    /\ wire' = Written("*IDN?", 0)
    /\ pc' = "k_idn_read"
    /\ UNCHANGED <<q, ret, clock, args, frame, s, ofh, csv, snaps, sleeps, exc, reads>>

\* ... and the line read is decoded into init_str
ConnectIdnRead ==
    /\ pc = "k_idn_read"
    /\ reads' = ReadLine
    /\ \E line \in IdnLines \cup {ReadTimeout} :
         /\ frame' = [frame EXCEPT !.init_str = Decode(line)]
         /\ clock' = IF line = ReadTimeout THEN clock + args.timeout ELSE clock
    /\ pc' = "k_identify"
    /\ UNCHANGED <<q, ret, wire, args, s, ofh, csv, snaps, sleeps, exc>>

\* lines 27-37: the two tests and the identity
ConnectIdentify ==
    /\ pc = "k_identify"
    /\ IF IsNone(frame.init_str)
         THEN /\ exc' = "Could not get response from PSU"
              /\ pc' = "failed"
              /\ UNCHANGED frame
         ELSE LET m == Search(frame.init_str.val)
              IN  IF IsNone(m)
                    THEN /\ exc' = "Could not identify a Korad PSU"
                         /\ pc' = "failed"
                         /\ UNCHANGED frame
                    ELSE /\ frame' = [frame EXCEPT !.hw =
                                [version |-> m.val.g2,
                                 model |-> <<"K", "A">> \o m.val.g1 \o <<"P">>,
                                 serial |-> m.val.g3]]
                         /\ pc' = "k_ready"
                         /\ exc' = exc
    /\ UNCHANGED <<q, ret, clock, wire, args, s, ofh, csv, snaps, sleeps, reads>>

ConnectNext ==
    \/ ConnectWake
    \/ ConnectWakeRead
    \/ ConnectIdn
    \/ ConnectIdnRead
    \/ ConnectIdentify

ConnectSpec == ConnectInit /\ [][ConnectNext]_vars

\* the constructor has ended, with a device object or with an exception
Connected == args.tool = "connect" /\ pc = "k_ready"
ConnectFailed == args.tool = "connect" /\ pc = "failed"

\* C11: connecting tells two failures apart: an identification query that
\* returns no data within the timeout fails with 'Could not get response from
\* PSU', one that returns data not matching the identity pattern fails with
\* 'Could not identify a Korad PSU'; neither produces a device object; a
\* matching response yields model, version and serial taken from it, as
\* KORAD KA3005P V4.2 SN:12345678 yields KA3005P, 4.2 and 12345678.
C11_HandshakeFailuresDistinguished ==
    (Connected \/ ConnectFailed) =>
        LET str == frame.init_str.val
            m == Search(str)
        IN  /\ Len(str) = 0 =>
                 ConnectFailed /\ exc = "Could not get response from PSU"
            /\ (Len(str) > 0 /\ IsNone(m)) =>
                 ConnectFailed /\ exc = "Could not identify a Korad PSU"
            /\ ~IsNone(m) =>
                 /\ Connected
                 /\ frame.hw.model = <<"K", "A">> \o m.val.g1 \o <<"P">>
                 /\ frame.hw.version = m.val.g2
                 /\ frame.hw.serial = m.val.g3
            /\ str = <<"K", "O", "R", "A", "D", " ", "K", "A", "3", "0", "0", "5", "P",
                       " ", "V", "4", ".", "2", " ", "S", "N", ":",
                       "1", "2", "3", "4", "5", "6", "7", "8">> =>
                 /\ Connected
                 /\ frame.hw = [model |-> <<"K", "A", "3", "0", "0", "5", "P">>,
                                version |-> <<"4", ".", "2">>,
                                serial |-> <<"1", "2", "3", "4", "5", "6", "7", "8">>]

(***************************************************************************)
(* The two polling loops together: the charger and the logger.             *)
(***************************************************************************)
LoopsInit == ChargeInit \/ LogInit

LoopsNext ==
    \/ ChargeDisable
    \/ ChargePlan
    \/ ChargeSetVolts
    \/ ChargeSetCurr
    \/ ChargeEnable
    \/ ChargeSettle
    \/ ChargeWhile
    \/ ChargeLog
    \/ ChargeCheck
    \/ ChargeFinal
    \/ ChargeClose
    \/ ChargeInterrupt
    \/ LogOpen
    \/ LogWhile
    \/ LogWrite
    \/ LogInterrupt
    \/ StatusWrite
    \/ StatusRead
    \/ StatusNoReply
    \/ SleepElapses
    \/ Wake

LoopsSpec == LoopsInit /\ [][LoopsNext]_vars

\* the number of entries of the file that are e
RECURSIVE Count(_, _)
Count(seq, e) ==
    IF seq = <<>> THEN 0
    ELSE (IF Head(seq) = e THEN 1 ELSE 0) + Count(Tail(seq), e)

Headers == Count(csv, "header")
Rows == Count(csv, "row")

\* between two iterations of the loop, or after it
LoopBoundary == pc \in {"c_while", "c_final", "c_close", "c_done", "l_while", "l_done"}

\* C13: in the charge loop and in the sampling loop the file receives the
\* header exactly once, immediately before the first row, and one row for
\* every snapshot taken, the first included: after any number of iterations
\* rows = snapshots, and headers = 1 once a snapshot was written.
C13_HeaderOnceRowPerSnapshot ==
    ofh # "none" =>
        /\ Headers = IF Rows > 0 THEN 1 ELSE 0
        /\ Rows > 0 => (csv[1] = "header" /\ csv[2] = "row")
        /\ Len(snaps) - Rows \in {0, 1}
        /\ LoopBoundary => Rows = Len(snaps)

\* the charger between two iterations with two snapshots in the file
C13_Witness ==
    /\ args.tool = "charge"
    /\ pc = "c_while"
    /\ Len(snaps) = 2
    /\ csv = <<"header", "row", "row">>

(***************************************************************************)
(* The driver under a sequence of calls of its public methods.             *)
(***************************************************************************)
MaxCalls == 2
MaxSlot == 7

DriverArgs == [tool : {"driver"}, timeout : {1}]

\* the last call: the method, its argument, and the numbers of commands
\* written and of lines read when it was made
DriverFrame == [op |-> "none", n |-> 0, w |-> 0, r |-> 0, calls |-> 0]

DriverInit ==
    /\ pc = "d_idle"
    /\ q = 0
    /\ ret = "d_idle"
    /\ clock = 0
    /\ wire = <<>>
    /\ args \in DriverArgs
    /\ frame = DriverFrame
    /\ s = EmptySnapshot
    /\ ofh = "none"
    /\ csv = <<>>
    /\ snaps = <<>>
    /\ sleeps = <<>>
    /\ exc = "none"
    /\ reads = <<>>

\* the methods that set something, with the arguments tried (mV, mA, 0/1
\* for off/on, preset slots)
SetCalls ==
    ({"setVolts"} \X {1200, 4175}) \cup ({"setCurr"} \X {1100})
    \cup ({"enable", "enableOVP", "enableOCP"} \X {0, 1}) \cup ({"disable"} \X {1})
    \cup ({"m_store", "m_recall"} \X (-1 .. MaxSlot))

\* what the channel holds after the method op was called with n
Called(op, n) ==
    CASE op = "setVolts" -> setVolts(n)
      [] op = "setCurr" -> setCurr(n)
      [] op = "enable" -> {enable(n = 1)}
      [] op = "disable" -> {disable}
      [] op = "enableOVP" -> {enableOVP(n = 1)}
      [] op = "enableOCP" -> {enableOCP(n = 1)}
      [] op = "m_store" -> {m_store(n)}
      [] op = "m_recall" -> {m_recall(n)}

\* one call of a setting method
DriverCall ==
    /\ pc = "d_idle"
    /\ frame.calls < MaxCalls
    /\ \E c \in SetCalls :
         /\ frame' = [op |-> c[1], n |-> c[2], w |-> Len(wire), r |-> Len(reads),
                      calls |-> frame.calls + 1]
         /\ wire' \in Called(c[1], c[2])
    /\ UNCHANGED <<pc, q, ret, clock, args, s, ofh, csv, snaps, sleeps, exc, reads>>

\* one call of status()
DriverStatus ==
    /\ pc = "d_idle"
    /\ frame.calls < MaxCalls
    /\ frame' = [op |-> "status", n |-> 0, w |-> Len(wire), r |-> Len(reads),
                 calls |-> frame.calls + 1]
    /\ pc' = "status"
    /\ q' = 0
    /\ ret' = "d_idle"
    /\ UNCHANGED <<clock, wire, args, s, ofh, csv, snaps, sleeps, exc, reads>>

DriverNext ==
    \/ DriverCall
    \/ DriverStatus
    \/ StatusWrite
    \/ StatusRead
    \/ StatusNoReply

DriverSpec == DriverInit /\ [][DriverNext]_vars

\* the last call has returned
Returned == args.tool = "driver" /\ pc = "d_idle" /\ frame.op # "none"

\* C14: m_store(n) and m_recall(n) write exactly one command, SAVn or RCLn,
\* when 1 <= n <= 5, and write nothing and raise nothing for any other n.
C14_PresetSlotRange ==
    (Returned /\ frame.op \in {"m_store", "m_recall"}) =>
        /\ exc = "none"
        /\ Len(reads) = frame.r
        /\ IF 1 <= frame.n /\ frame.n <= 5
             THEN /\ Len(wire) = frame.w + 1
                  /\ Last(wire).c = (IF frame.op = "m_store" THEN "SAV" ELSE "RCL")
                  /\ Last(wire).v = frame.n
             ELSE Len(wire) = frame.w

\* a store to slot 0 after a recall of slot 5 has left only the recall written
C14_Witness ==
    /\ Returned
    /\ frame.op = "m_store"
    /\ frame.n = 0
    /\ Len(wire) = 1
    /\ wire[1].c = "RCL"
    /\ wire[1].v = 5

\* the positions of the queries among the commands written
QueryPositions == {i \in 1 .. Len(wire) : \E k \in 1 .. Len(Queries) : wire[i].c = Queries[k]}

\* C15: each of setVolts, setCurr, enable / disable, enableOVP and enableOCP
\* writes exactly one command, ended by the terminator, and reads nothing;
\* each query writes one command and then reads one line: the k-th line is
\* read when the k-th query is the last command written, and no query but
\* the one being answered is without its read.
C15_WritesAndReadsInStep ==
    args.tool = "driver" =>
        /\ (Returned /\ frame.op \in {"setVolts", "setCurr", "enable", "disable",
                                      "enableOVP", "enableOCP"}) =>
               /\ Len(wire) = frame.w + 1
               /\ Last(wire).nl = "\n"
               /\ Len(reads) = frame.r
        /\ \A i \in 1 .. Len(wire) : wire[i].nl = "\n"
        /\ Cardinality(QueryPositions) - Len(reads) = (IF pc = "status_read" THEN 1 ELSE 0)
        /\ \A k \in 1 .. Len(reads) :
               /\ reads[k].n \in QueryPositions
               /\ Cardinality({i \in QueryPositions : i <= reads[k].n}) = k

\* a snapshot was read and the protection then switched on: five reads, six
\* commands
C15_Witness ==
    /\ Returned
    /\ frame.op = "enableOVP"
    /\ frame.r = 5
    /\ Len(wire) = 6
    /\ Len(reads) = 5

(***************************************************************************)
(* util.py: flatten_dict and listify_dict.  A key is a sequence of         *)
(* character codes.  A value is a leaf or a dict; a dict is the sequence   *)
(* of its items <<key, value>> in insertion order.                         *)
(***************************************************************************)
Leaf(v) == [leaf |-> TRUE, v |-> v, d |-> <<>>]
Dict(items) == [leaf |-> FALSE, v |-> 0, d |-> items]

\* d[k] = v on a dict: a key already there keeps its place
DictSet(d, k, v) ==
    IF \E i \in 1 .. Len(d) : d[i][1] = k
      THEN [i \in 1 .. Len(d) |-> IF d[i][1] = k THEN <<k, v>> ELSE d[i]]
      ELSE Append(d, <<k, v>>)

\* d[k]
DictGet(d, k) == LET i == CHOOSE i \in 1 .. Len(d) : d[i][1] = k IN d[i][2]

\* the separator '_'
Separator == <<95>>

RECURSIVE flatten_dict(_, _)
RECURSIVE FlattenItems(_, _, _)
RECURSIVE FlattenSub(_, _, _)

\* the inner for of the comprehension: the items of the flattened value of
\* one key, each under 'prefix + separator + k if prefix else k'
FlattenSub(sub, prefix, acc) ==
    IF sub = <<>> THEN acc
    ELSE LET k == Head(sub)[1]
             key == IF prefix # <<>> THEN prefix \o Separator \o k ELSE k
         IN  FlattenSub(Tail(sub), prefix, DictSet(acc, key, Head(sub)[2]))

\* the outer for of the comprehension: for kk, vv in dd.items()
FlattenItems(items, prefix, acc) ==
    IF items = <<>> THEN acc
    ELSE FlattenItems(Tail(items), prefix,
             FlattenSub(flatten_dict(Head(items)[2], Head(items)[1]), prefix, acc))

\* flatten_dict(dd, '_', prefix): {prefix : dd} for a value that is no dict
flatten_dict(dd, prefix) ==
    IF dd.leaf THEN <<<<prefix, dd.v>>>>
    ELSE FlattenItems(dd.d, prefix, <<>>)

\* a < b for two strings, as Python compares them: by the first code that
\* differs, a proper prefix first
RECURSIVE StrLess(_, _)
StrLess(a, b) ==
    IF b = <<>> THEN FALSE
    ELSE IF a = <<>> THEN TRUE
    ELSE IF Head(a) # Head(b) THEN Head(a) < Head(b)
    ELSE StrLess(Tail(a), Tail(b))

\* sorted(keys)
RECURSIVE sorted(_)
sorted(keys) ==
    IF keys = {} THEN <<>>
    ELSE LET m == CHOOSE k \in keys : \A o \in keys \ {k} : StrLess(k, o)
         IN  <<m>> \o sorted(keys \ {m})

\* listify_dict with the row in the order of the flattened dict
listify_dict_InsertionOrder(data, labels_only) ==
    LET flat == flatten_dict(data, <<>>)
        keys == sorted({flat[i][1] : i \in 1 .. Len(flat)})
    IN  IF labels_only THEN keys
        ELSE [i \in 1 .. Len(flat) |-> flat[i][2]]

\* listify_dict(data, labels_only)
listify_dict(data, labels_only) ==
    LET flat == flatten_dict(data, <<>>)
        keys == sorted({flat[i][1] : i \in 1 .. Len(flat)})
    IN  IF labels_only THEN keys
        ELSE [i \in 1 .. Len(keys) |-> DictGet(flat, keys[i])]

\* The keys tried: 'a', 'b' and 'a_b', which the path a, b flattens to too.
Keys == {<<97>>, <<98>>, <<97, 95, 98>>}

\* the lists of at most two different keys
KeyLists ==
    {<<>>} \cup {<<k>> : k \in Keys}
    \cup {kl \in {<<k, l>> : k \in Keys, l \in Keys} : kl[1] # kl[2]}

\* the inner dicts: leaves under the keys of a key list
Inner == {Dict([i \in 1 .. Len(kl) |-> <<kl[i], Leaf(0)>>]) : kl \in KeyLists}

\* the snapshots first taken: a leaf or an inner dict under each key
Snapshots ==
    {Dict(<<>>)} \cup {Dict(<<<<k, x>>>>) : k \in Keys, x \in {Leaf(0)} \cup Inner}
    \cup {Dict(<<<<k, x>>, <<l, y>>>>) :
            k \in Keys, l \in Keys, x \in {Leaf(0)} \cup Inner, y \in {Leaf(0)} \cup Inner}

\* seq with e put in at position i
InsertAt(seq, i, e) == SubSeq(seq, 1, i - 1) \o <<e>> \o SubSeq(seq, i, Len(seq))

\* the values of the same nested key structure as dd: the same keys with
\* values of the same structure under them, in any order, with any leaves
RECURSIVE SameStructure(_)
RECURSIVE SameItems(_)
SameItems(items) ==
    IF items = <<>> THEN {<<>>}
    ELSE {InsertAt(rest, i, <<Head(items)[1], x>>) :
            rest \in SameItems(Tail(items)), i \in 1 .. Len(items),
            x \in SameStructure(Head(items)[2])}

SameStructure(dd) ==
    IF dd.leaf THEN {Leaf(0), Leaf(1)} ELSE {Dict(items) : items \in SameItems(dd.d)}

FlattenArgs == [tool : {"flatten"}, timeout : {1}]

FlattenInit ==
    /\ pc = "f_first"
    /\ q = 0
    /\ ret = "none"
    /\ clock = 0
    /\ wire = <<>>
    /\ args \in FlattenArgs
    /\ frame = [first |-> TRUE]
    /\ s \in {d \in Snapshots : \A i, j \in 1 .. Len(d.d) : d.d[i][1] = d.d[j][1] => i = j}
    /\ ofh = "open"
    /\ csv = <<>>
    /\ snaps = <<>>
    /\ sleeps = <<>>
    /\ exc = "none"
    /\ reads = <<>>

\* the first snapshot is written: the header, then its row
FlattenFirst ==
    /\ pc = "f_first"
    /\ csv' = <<listify_dict(s, TRUE), listify_dict(s, FALSE)>>
    /\ frame' = [first |-> FALSE]
    /\ pc' = "f_take"
    /\ UNCHANGED <<q, ret, clock, wire, args, s, ofh, snaps, sleeps, exc, reads>>

\* a further snapshot of the same structure is taken
FlattenTake ==
    /\ pc = "f_take"
    /\ s' \in SameStructure(s)
    /\ pc' = "f_row"
    /\ UNCHANGED <<q, ret, clock, wire, args, frame, ofh, csv, snaps, sleeps, exc, reads>>

\* its row is written
FlattenRow ==
    /\ pc = "f_row"
    /\ csv' = Append(csv, listify_dict(s, FALSE))
    /\ pc' = "f_done"
    /\ UNCHANGED <<q, ret, clock, wire, args, frame, s, ofh, snaps, sleeps, exc, reads>>

FlattenNext ==
    \/ FlattenFirst
    \/ FlattenTake
    \/ FlattenRow

FlattenSpec == FlattenInit /\ [][FlattenNext]_vars

\* the last snapshot has been written
RowWritten == args.tool = "flatten" /\ pc \in {"f_take", "f_done"}

\* C16: the header (the sorted flattened keys) and the row of a snapshot are
\* of equal length, and header and row zipped are exactly the flattened
\* mapping; a snapshot of the same nested key structure has the same header,
\* so that its row lines up with the header written first.
C16_HeaderRowRoundTrip ==
    RowWritten =>
        LET header == csv[1]
            row == Last(csv)
            flat == flatten_dict(s, <<>>)
        IN  /\ Len(header) = Len(row)
            /\ \A i, j \in 1 .. Len(header) : header[i] = header[j] => i = j
            /\ {<<header[i], row[i]>> : i \in 1 .. Len(header)}
                 = {flat[i] : i \in 1 .. Len(flat)}
            /\ listify_dict(s, TRUE) = header

\* a second snapshot with its keys in another order and leaves that differ:
\* a_b before a, and the rows 0, 0 and 0, 1 under the header a, a_b
C16_Witness ==
    /\ RowWritten
    /\ pc = "f_done"
    /\ s = Dict(<<<<<<97, 95, 98>>, Leaf(1)>>, <<<<97>>, Leaf(0)>>>>)
    /\ csv = <<<<<<97>>, <<97, 95, 98>>>>, <<0, 0>>, <<0, 1>>>>

(***************************************************************************)
(* The control tool: go() of korad_control.py, lines 151-196.  An option   *)
(* not given (None) is <<>>, one given with the value x is <<x>>.          *)
(***************************************************************************)
MaxShows == 2

ControlArgs ==
    {a \in [tool : {"control"}, timeout : {1},
            volts : {<<>>, <<4175>>},            \* mV
            curr : {<<>>, <<1100>>},             \* mA
            slew : {<<>>, <<2, 60>>},            \* COUNT, TIME
            enable : BOOLEAN, disable : BOOLEAN,
            status : BOOLEAN, json : BOOLEAN, clock : BOOLEAN,
            recall : {<<>>, <<3>>}, store : {<<>>, <<5>>},
            ocp_on : BOOLEAN, ocp_off : BOOLEAN,
            ovp_on : BOOLEAN, ovp_off : BOOLEAN] :
        /\ ~(a.enable /\ a.disable)
        /\ ~(a.status /\ a.json) /\ ~(a.status /\ a.clock) /\ ~(a.json /\ a.clock)
        /\ a.recall = <<>> \/ a.store = <<>>
        /\ ~(a.ocp_on /\ a.ocp_off)
        /\ ~(a.ovp_on /\ a.ovp_off)}

\* the frame of a slew called from go(), and the rounds of the clock loop
ControlFrame(what, end, count, duration, back, shows) ==
    [shows |-> shows] @@ SlewCall(what, end, count, duration, back)

ControlInit ==
    /\ pc = "g_volts"
    /\ q = 0
    /\ ret = "none"
    /\ clock = 0
    /\ wire = <<>>
    /\ args \in ControlArgs
    /\ frame = ControlFrame("none", 0, 1, 0, "none", 0)
    /\ s = EmptySnapshot
    /\ ofh = "none"
    /\ csv = <<>>
    /\ snaps = <<>>
    /\ sleeps = <<>>
    /\ exc = "none"
    /\ reads = <<>>

\* lines 152-156: --volts, slewed when --slew is given
GoVolts ==
    /\ pc = "g_volts"
    /\ IF args.volts # <<>> /\ args.slew # <<>>
         THEN /\ frame' = ControlFrame("volts", args.volts[1], args.slew[1], args.slew[2],
                                       "g_curr", frame.shows)
              /\ pc' = "status"
              /\ q' = 0
              /\ ret' = "sl_plan"
              /\ UNCHANGED wire
         ELSE /\ IF args.volts # <<>> THEN wire' \in setVolts(args.volts[1]) ELSE UNCHANGED wire
              /\ pc' = "g_curr"
              /\ UNCHANGED <<q, ret, frame>>
    /\ UNCHANGED <<clock, args, s, ofh, csv, snaps, sleeps, exc, reads>>

\* go() with the if of --enable placed before the if of --curr
GoCurr_EnabledFirst ==
    /\ pc = "g_curr"
    /\ LET w == IF args.enable THEN enable(TRUE) ELSE wire
       IN  IF args.curr # <<>> /\ args.slew # <<>>
             THEN /\ frame' = ControlFrame("curr", args.curr[1], args.slew[1], args.slew[2],
                                           "g_enable", frame.shows)
                  /\ pc' = "status"
                  /\ q' = 0
                  /\ ret' = "sl_plan"
                  /\ wire' = w
             ELSE /\ wire' \in IF args.curr # <<>>
                                 THEN {Append(w, Cmd("ISET1:", c)) : c \in Fmt2(args.curr[1])}
                                 ELSE {w}
                  /\ pc' = "g_enable"
                  /\ UNCHANGED <<q, ret, frame>>
    /\ UNCHANGED <<clock, args, s, ofh, csv, snaps, sleeps, exc, reads>>

\* lines 158-162: --curr, slewed when --slew is given
GoCurr ==
    /\ pc = "g_curr"
    /\ IF args.curr # <<>> /\ args.slew # <<>>
         THEN /\ frame' = ControlFrame("curr", args.curr[1], args.slew[1], args.slew[2],
                                       "g_enable", frame.shows)
              /\ pc' = "status"
              /\ q' = 0
              /\ ret' = "sl_plan"
              /\ UNCHANGED wire
         ELSE /\ IF args.curr # <<>> THEN wire' \in setCurr(args.curr[1]) ELSE UNCHANGED wire
              /\ pc' = "g_enable"
              /\ UNCHANGED <<q, ret, frame>>
    /\ UNCHANGED <<clock, args, s, ofh, csv, snaps, sleeps, exc, reads>>

\* one if of go(): at 'at', when the flag is set the channel becomes 'then';
\* go() goes on at 'to'
GoIf(at, flag, then, to) ==
    /\ pc = at
    /\ wire' = IF flag THEN then ELSE wire
    /\ pc' = to
    /\ UNCHANGED <<q, ret, clock, args, frame, s, ofh, csv, snaps, sleeps, exc, reads>>

\* lines 164-165
GoEnable == GoIf("g_enable", args.enable, enable(TRUE), "g_disable")

\* lines 167-168
GoDisable == GoIf("g_disable", args.disable, disable, "g_ovp_on")

\* lines 170-171: if self.args.ovp_on: enableOVP(True)
GoOvpOn == GoIf("g_ovp_on", args.ovp_on, enableOVP(TRUE), "g_ovp_off")

\* lines 173-174: if self.args.ovp_on: enableOVP(False)
GoOvpOff == GoIf("g_ovp_off", args.ovp_on, enableOVP(FALSE), "g_ocp_on")

\* lines 176-177: if self.args.ocp_on: enableOCP(True)
GoOcpOn == GoIf("g_ocp_on", args.ocp_on, enableOCP(TRUE), "g_ocp_off")

\* lines 179-180: if self.args.ocp_on: enableOCP(False)
GoOcpOff == GoIf("g_ocp_off", args.ocp_on, enableOCP(FALSE), "g_recall")

\* lines 182-183
GoRecall ==
    GoIf("g_recall", args.recall # <<>>,
         IF args.recall # <<>> THEN m_recall(args.recall[1]) ELSE wire, "g_store")

\* lines 185-186
GoStore ==
    GoIf("g_store", args.store # <<>>,
         IF args.store # <<>> THEN m_store(args.store[1]) ELSE wire, "g_json")

\* lines 188-189: --json prints status()
GoJson ==
    /\ pc = "g_json"
    /\ IF args.json
         THEN /\ pc' = "status"
              /\ q' = 0
              /\ ret' = "g_status"
         ELSE /\ pc' = "g_status"
              /\ UNCHANGED <<q, ret>>
    /\ UNCHANGED <<clock, wire, args, frame, s, ofh, csv, snaps, sleeps, exc, reads>>

\* lines 190-191 and 139: --status calls showStatus(), which calls status()
GoStatus ==
    /\ pc = "g_status"
    /\ IF args.status
         THEN /\ pc' = "status"
              /\ q' = 0
              /\ ret' = "g_show"
         ELSE /\ pc' = "g_clock"
              /\ UNCHANGED <<q, ret>>
    /\ UNCHANGED <<clock, wire, args, frame, s, ofh, csv, snaps, sleeps, exc, reads>>

\* lines 140-148: the report is printed
GoShow ==
    /\ pc = "g_show"
    /\ pc' = "g_clock"
    /\ UNCHANGED <<q, ret, clock, wire, args, frame, s, ofh, csv, snaps, sleeps, exc, reads>>

\* time.localtime(): hour, minute, second
LocalTimes == {<<9, 5, 0>>, <<23, 59, 59>>}

\* showTime(), lines 100-107: disable(), then hour + min / 100 as the voltage
\* and sec / 100 as the current
showTime(now) ==
    LET w1 == Append(wire, append10("OUT", FALSE))
    IN  {Append(Append(w1, Cmd("VSET1:", v)), Cmd("ISET1:", i)) :
            v \in Fmt2(now[1] * 1000 + now[2] * 10), i \in Fmt2(now[3] * 10)}

\* lines 193-196: --clock: while True: showTime(); time.sleep(1).  Without
\* --clock go() returns.
GoClock ==
    /\ pc = "g_clock"
    /\ IF args.clock
         THEN /\ frame.shows < MaxShows
              /\ \E now \in LocalTimes : wire' \in showTime(now)
              /\ frame' = [frame EXCEPT !.shows = frame.shows + 1]
              /\ sleeps' = Slept(1)
              /\ pc' = "sleep"
              /\ ret' = "g_clock"
         ELSE /\ pc' = "g_done"
              /\ UNCHANGED <<ret, wire, frame, sleeps>>
    /\ UNCHANGED <<q, clock, args, s, ofh, csv, snaps, exc, reads>>

ControlNext ==
    \/ GoVolts
    \/ GoCurr
    \/ GoEnable
    \/ GoDisable
    \/ GoOvpOn
    \/ GoOvpOff
    \/ GoOcpOn
    \/ GoOcpOff
    \/ GoRecall
    \/ GoStore
    \/ GoJson
    \/ GoStatus
    \/ GoShow
    \/ GoClock
    \/ StatusWrite
    \/ StatusRead
    \/ StatusNoReply
    \/ SlewPlan
    \/ SlewStep
    \/ SlewFinal
    \/ SleepElapses
    \/ Wake

ControlSpec == ControlInit /\ [][ControlNext]_vars

\* the commands written whose name is c
Commands(c) == SelectSeq(wire, LAMBDA w : w.c = c)

\* go() is past the four ifs of the protections
ProtectionsDone ==
    /\ args.tool = "control"
    /\ pc \in {"g_recall", "g_store", "g_json", "g_status", "g_show", "g_done"}

\* C17: --ovp-on resp. --ocp-on leaves OVP1 resp. OCP1 as the last protection
\* command written, --ovp-off resp. --ocp-off writes OVP0 resp. OCP0, and a
\* run with none of these flags writes no protection command.
C17_ProtectionFlags ==
    ProtectionsDone =>
        /\ args.ovp_on => (Commands("OVP") # <<>> /\ Last(Commands("OVP")).v = 1)
        /\ args.ovp_off => (Commands("OVP") # <<>> /\ Last(Commands("OVP")).v = 0)
        /\ args.ocp_on => (Commands("OCP") # <<>> /\ Last(Commands("OCP")).v = 1)
        /\ args.ocp_off => (Commands("OCP") # <<>> /\ Last(Commands("OCP")).v = 0)
        /\ ~(args.ovp_on \/ args.ovp_off) => Commands("OVP") = <<>>
        /\ ~(args.ocp_on \/ args.ocp_off) => Commands("OCP") = <<>>

(***************************************************************************)
(* Interrupts in the two loops.                                            *)
(***************************************************************************)
\* SIGINT is handled
LoopInterrupt == ChargeInterrupt \/ LogInterrupt

\* this step is the handling of an interrupt
Interrupted == pc' \in {"c_aborted", "l_aborted"} /\ pc \notin {"c_aborted", "l_aborted"}

\* a sleep is in progress, a query is written and not yet answered, or a
\* snapshot is begun and not complete
MidIteration ==
    /\ args.tool \in {"charge", "log"}
    /\ pc = "sleep" \/ pc = "status_read" \/ (pc = "status" /\ q > 0)

\* C18 as stated: an interrupt is acted on only between a sleep and the next
\* action: it never ends a sleep in progress and never takes effect between
\* the write and the read of a query or between the queries of one snapshot.
C18_InterruptOnlyAtLoopBoundary == [][Interrupted => ~MidIteration]_vars

\* C18: an interrupt is acted on wherever the loop is, also in a sleep in
\* progress, between the write and the read of a query and between the
\* queries of one snapshot; the handler ends the program where it stands:
\* the sleep is not finished, the answer not read, the row not written.
C18_InterruptPreempts ==
    /\ [](MidIteration => ENABLED LoopInterrupt)
    /\ [][Interrupted =>
            /\ clock' = clock
            /\ sleeps' = sleeps
            /\ reads' = reads
            /\ csv' = csv
            /\ snaps' = snaps
            /\ ofh' # "open"]_vars

\* the logger interrupted when half of a sleep had passed
C18_Witness ==
    /\ pc = "l_aborted"
    /\ sleeps # <<>>
    /\ Last(sleeps).t < clock
    /\ clock < WakeTime

(***************************************************************************)
(* The slew: the running value and the parameter selector.                 *)
(***************************************************************************)
\* the slew is in or past its loop
InSlewLoop ==
    /\ args.tool = "slew"
    /\ pc = "sl_loop" \/ (pc = "sleep" /\ ret = "sl_loop") \/ pc = "sl_done"

\* |x|
Abs(x) == IF x < 0 THEN -x ELSE x

\* count times the distance of the running value from start + i * incr
Drift == Abs(frame.v * frame.count
               - (frame.start * frame.count + frame.i * (frame.end - frame.start)))

\* C19 as stated: the rounding is applied to the value transmitted only:
\* after step k the running value is start + k * incr, no rounding error
\* being carried into later steps.
C19_AccumulatorExact == InSlewLoop => Drift = 0

\* C19: the rounded value is both transmitted and kept as the running value.
\* Each step takes the running value to int((v + incr) * 1000 + 0.5) / 1000,
\* v being the rounded running value of the step before, and transmits it:
\* a thousandth nearest to v + incr when that is not below zero, else one
\* between v + incr and zero.  The rounding errors add up: in a slew upwards
\* to at most k * 0.0005 after step k.
C19_RoundingCarried ==
    /\ [](InSlewLoop /\ frame.start <= frame.end => 2 * Drift <= frame.i * frame.count)
    /\ [][(args.tool = "slew" /\ pc = "sl_loop" /\ pc' = "sleep") =>
            LET n == frame.v * frame.count + (frame.end - frame.start)
                m == frame'.v * frame.count
            IN  /\ frame'.i = frame.i + 1
                /\ IF n >= 0 THEN 2 * Abs(m - n) <= frame.count
                   ELSE n <= m /\ m <= 0 /\ 2 * (m - n) <= 3 * frame.count
                /\ Last(wire').v \in Fmt2(frame'.v)]_vars

\* from 0 to 0.016 in three steps: 0.005, 0.010, 0.015 where 0.016 is
\* start + 3 * incr
C19_Witness ==
    /\ InSlewLoop
    /\ frame.start = 0
    /\ frame.end = 16
    /\ frame.count = 3
    /\ frame.i = 3
    /\ frame.v = 15

\* C20: a slew of anything but volts or curr, once it has read the settings,
\* fails with the 'No function found' exception of line 74 and writes no
\* setpoint command.
C20_InvalidSelectorRejected ==
    (args.tool = "slew" /\ args.what \notin {"volts", "curr"}
        /\ Len(snaps) = 1 /\ pc # "sl_plan") =>
        /\ pc = "failed"
        /\ exc = "No function found"
        /\ Setpoints = <<>>

(***************************************************************************)
(* The logger: the deadline, the sleeps and the saturated scheduler.       *)
(***************************************************************************)
\* sleep_time of iteration k: the deadline start + k x period less the time
\* the iteration read
SleepTimeOf(k) == LogStart + k * args.period - snaps[k].at

\* every capture so far took longer than one period
Saturated == \A k \in 1 .. Len(snaps) : snaps[k].took > args.period

\* C21: every iteration advances the deadline by exactly one period whether
\* or not sleep_time was positive; a sleep happens only, and always, when
\* sleep_time > 0; and when every capture takes longer than one period the
\* scheduler captures back to back without any sleep, raises nothing, and
\* begins no capture once the time is start + duration or later.
C21_SaturatedScheduler ==
    (args.tool = "log" /\ pc \in {"l_while", "l_done"}) =>
        /\ frame.deadline = LogStart + (Len(snaps) + 1) * args.period
        /\ \A j \in 1 .. Len(sleeps) : sleeps[j].d > 0
        /\ Len(sleeps) = Cardinality({k \in 1 .. Len(snaps) : SleepTimeOf(k) > 0})
        /\ (Saturated /\ Len(snaps) > 0) =>
               /\ sleeps = <<>>
               /\ exc = "none"
               /\ \A k \in 1 .. Len(snaps) : snaps[k].at < frame.end

\* C22: the sleep after a capture is the deadline less the time read after
\* the capture has completed, so that while every capture takes less than
\* one period the k-th capture begins exactly at start + (k - 1) x period,
\* not later by the latency of a capture.
C22_CaptureOnDeadline ==
    (args.tool = "log" /\ pc # "l_open" /\ AllBelowPeriod) =>
        /\ \A k \in 1 .. Len(snaps) : Lateness(k) = 0
        /\ \A j \in 1 .. Len(sleeps) :
               j <= Len(snaps) =>
                   sleeps[j].d = LogStart + j * args.period - (snaps[j].at + snaps[j].took)

(***************************************************************************)
(* The slew: the range of the setpoints written.                           *)
(***************************************************************************)
\* the least and the greatest element of a set of integers
Min(S) == CHOOSE x \in S : \A y \in S : x <= y
Max(S) == CHOOSE x \in S : \A y \in S : x >= y

\* the setpoints a finished slew wrote before the final one, in hundredths
Intermediate == [k \in 1 .. Len(Setpoints) - 1 |-> Setpoints[k].v]

\* C23: every intermediate setpoint written lies between start and end
\* inclusive: none is past the target, none on the far side of start.  The
\* commands carry two decimals; start and end are taken as they print with
\* two decimals, either way where that is open.
C23_SetpointsWithinRange ==
    (args.tool = "slew" /\ pc = "sl_done") =>
        LET lo == IF frame.start <= frame.end THEN frame.start ELSE frame.end
            hi == IF frame.start <= frame.end THEN frame.end ELSE frame.start
        IN  \A k \in 1 .. Len(Intermediate) :
                Min(Fmt2(lo)) <= Intermediate[k] /\ Intermediate[k] <= Max(Fmt2(hi))

\* the places of the wire where the output is switched on (OUT1)
EnablePositions == {p \in 1 .. Len(wire) : wire[p].c = "OUT" /\ wire[p].v = 1}

\* the commands named c written before place p
Before(p, c) == SelectSeq(SubSeq(wire, 1, p - 1), LAMBDA w : w.c = c)

\* the number of setpoint commands a run owes to --volts or --curr: none when
\* the option is absent, one when it is direct, COUNT steps and the final
\* command when it is slewed
Requested(arg) ==
    IF arg = <<>> THEN 0 ELSE IF args.slew = <<>> THEN 1 ELSE args.slew[1] + 1

\* C24: in a run of the control tool the output is switched on at most once,
\* only on --enable, and every setpoint command the run owes to --volts and
\* --curr, direct or slewed, the final command of a slew included, is on the
\* wire before OUT1, the last of each carrying the requested value.
C24_SetpointsBeforeEnable ==
    args.tool = "control" =>
        /\ Cardinality(EnablePositions) <= 1
        /\ \A p \in EnablePositions :
               /\ args.enable
               /\ Len(Before(p, "VSET1:")) = Requested(args.volts)
               /\ Len(Before(p, "ISET1:")) = Requested(args.curr)
               /\ args.volts # <<>> => Last(Before(p, "VSET1:")).v \in Fmt2(args.volts[1])
               /\ args.curr # <<>> => Last(Before(p, "ISET1:")).v \in Fmt2(args.curr[1])

\* a run with --volts, --curr, --slew, --enable and --clock has ended its
\* second round of the clock: both slews are on the wire, then OUT1, then the
\* setpoints of the clock
C24_Witness ==
    /\ args.tool = "control"
    /\ args.volts # <<>> /\ args.curr # <<>> /\ args.slew # <<>>
    /\ args.enable /\ args.clock
    /\ frame.shows = 2
    /\ \E p \in EnablePositions :
           /\ Len(Before(p, "VSET1:")) = args.slew[1] + 1
           /\ Len(Before(p, "ISET1:")) = args.slew[1] + 1
    /\ Len(Commands("VSET1:")) = args.slew[1] + 1 + 2

====
